---- MODULE Spec2Model ----
(***************************************************************************)
(* aliyundrive-webdav: the bootstrap in src/main.rs (main(), the QR login  *)
(* loop, the construction of the drive client and the file system from    *)
(* the options), the authentication gate of the service, and the          *)
(* components the file system is built from (directory entry cache, token  *)
(* manager, drive client, file system adapter).                           *)
(***************************************************************************)
EXTENDS Integers, Sequences, FiniteSets, TLC

VARIABLES
    pc,        \* login(): the position in the function
    i,         \* login(): iterations of `for _i in 0..10` begun
    polls,     \* scan.query calls issued
    sleeps,    \* tokio::time::sleep calls completed
    elapsed,   \* seconds slept in login()
    result,    \* login(): the value returned (tag "None" while running)
    lastResp,  \* the outcome of the latest scan.query
    newPrefix, \* history: number of leading polls that all reported "new"
    everExpired,   \* history: some poll response was classified expired
    everConfirmed, \* history: some poll response was classified confirmed
    qr,        \* login(): how far the QR code got: "none", "created", "printed"
    opt,       \* main(): the parsed options (Opt)
    fs,        \* main(): what AliyunDriveFileSystem::new was given, NoFs before it
    cache,     \* EntryCache: the resident entries, least recently used first
    now,       \* the clock, in seconds
    ticks,     \* how often the clock advanced
    opCount,   \* EntryCache: accesses so far (the stamp of the next access)
    lastGet,   \* EntryCache: what the latest get returned
    lastEvict, \* EntryCache: the latest eviction for capacity
    tmCred,    \* TokenManager: the current credential
    tmInflight, \* TokenManager: refresh network calls in flight
    tmGen,     \* TokenManager: refreshes started so far (the latest one's number)
    tmCalls,   \* refresh network calls issued so far
    tmFlight,  \* the outcome of each refresh, "Pending" while in flight
    callers,   \* the tasks calling get_valid_credential / force_refresh
    dc,        \* DriveClient: the call in progress
    tasks,     \* FileSystemAdapter: the operation each request task is in
    remote,    \* the remote drive: the version of the path's content, 1 at first
    reported,  \* the latest version whose mutation has reported success, 0 if none
    driveCalls, \* DriveClient calls issued by the adapter, reads and mutations
    mainPc,    \* main(): the position in the function
    fileToken, \* main(): refresh_token_from_file, "Unread" before the read
    refreshToken, \* main(): the local refresh_token
    drive,     \* main(): what AliyunDrive::new was given, NoDrive before it
    listening, \* the server is bound and accepts requests
    exitResult, \* what main() returned, "None" while it runs
    http       \* AliyunDriveWebDav::call: the latest request and its response

loginVars == <<pc, i, polls, sleeps, elapsed, result, lastResp, newPrefix,
               everExpired, everConfirmed, qr>>

optVars == <<opt, fs>>
cacheVars == <<cache, now, ticks, opCount, lastGet, lastEvict>>

tokenVars == <<tmCred, tmInflight, tmGen, tmCalls, tmFlight, callers>>

fsVars == <<tasks, remote, reported, driveCalls>>

mainVars == <<mainPc, fileToken, refreshToken, drive, listening, exitResult, http>>

vars == <<loginVars, optVars, cacheVars, tokenVars, dc, fsVars, mainVars>>

----------------------------------------------------------------------------
(* main(): the options and the construction of the file system, src/main.rs
   36-95 and 143-177 *)

\* #[clap(long, default_value = "1000")] cache_size
DefaultCacheSize == 1000
\* #[clap(long, default_value = "600")] cache_ttl
DefaultCacheTtl == 600

CacheSizes == {2, DefaultCacheSize}
CacheTtls == {1, DefaultCacheTtl}
DomainIds == {"None", "pds1"}
\* Option<String> options: "None" when the option and its environment
\* variable are both absent
RefreshTokens == {"None", "rt1"}
AuthUsers == {"None", "alice"}
AuthPasswords == {"None", "secret"}

\* Opt::parse(): no_trash conflicts with domain-id
Opts ==
    {o \in [cache_size : CacheSizes, cache_ttl : CacheTtls, no_trash : BOOLEAN,
            read_only : BOOLEAN, domain_id : DomainIds,
            refresh_token : RefreshTokens, auth_user : AuthUsers,
            auth_password : AuthPasswords] :
        ~(o.no_trash /\ o.domain_id # "None")}

\* The options when none is given
DefaultOpt ==
    [cache_size |-> DefaultCacheSize, cache_ttl |-> DefaultCacheTtl, no_trash |-> FALSE,
     read_only |-> FALSE, domain_id |-> "None", refresh_token |-> "None",
     auth_user |-> "None", auth_password |-> "None"]

\* The delete mode taken from the flag alone
NoTrashFlagOnly(o) == o.no_trash

\* let (drive_config, no_trash) = ...: PDS doesn't have trash support
NoTrash(o) == IF o.domain_id # "None" THEN TRUE ELSE o.no_trash

NoFs == [cache_size |-> 0, cache_ttl |-> 0, no_trash |-> FALSE, read_only |-> FALSE]

\* The two bool arguments in each other's place
NewFileSystemFlagsSwapped(o) ==
    [cache_size |-> o.cache_size, cache_ttl |-> o.cache_ttl,
     no_trash |-> o.read_only, read_only |-> NoTrash(o)]

\* The two u64 arguments in each other's place
NewFileSystemSwapped(o) ==
    [cache_size |-> o.cache_ttl, cache_ttl |-> o.cache_size,
     no_trash |-> NoTrash(o), read_only |-> o.read_only]

\* AliyunDriveFileSystem::new(drive, opt.root, opt.cache_size, opt.cache_ttl,
\* no_trash, opt.read_only)
NewFileSystem(o) ==
    [cache_size |-> o.cache_size, cache_ttl |-> o.cache_ttl,
     no_trash |-> NoTrash(o), read_only |-> o.read_only]

----------------------------------------------------------------------------
(* EntryCache: path-keyed, TTL expiry, capacity-bounded with LRU eviction *)

\* Clock advances per behaviour
MaxTicks == 2
\* Cache accesses per behaviour
MaxOps == 4

\* A path is the sequence of its components
Root == <<>>
PathA == <<"a">>
PathB == <<"b">>
Paths == {Root, PathA, PathB}
Values == {1, 2}
TickChoices == {1, DefaultCacheTtl - 1}

Parent(p) == IF p = <<>> THEN <<>> ELSE SubSeq(p, 1, Len(p) - 1)
AtOrBelow(p, q) == Len(p) <= Len(q) /\ SubSeq(q, 1, Len(p)) = p

Capacity == fs.cache_size
Ttl == fs.cache_ttl

Resident(c) == {c[k].path : k \in 1..Len(c)}
Entry(c, p) == c[CHOOSE k \in 1..Len(c) : c[k].path = p]
Without(c, S) == SelectSeq(c, LAMBDA e : e.path \notin S)
Valid(e, t) == t - e.inserted_at < Ttl
\* The resident path whose latest access is the oldest
LeastRecentlyUsed(c) ==
    (CHOOSE k \in 1..Len(c) : \A j \in 1..Len(c) : c[k].used <= c[j].used)

NoGet == [path |-> <<>>, hit |-> FALSE, value |-> 0, age |-> 0, resident |-> FALSE]
NoEvict == [evicted |-> <<>>, lru |-> <<>>]

CacheInit ==
    /\ cache = <<>>
    /\ now = 0
    /\ ticks = 0
    /\ opCount = 0
    /\ lastGet = NoGet
    /\ lastEvict = NoEvict

\* get(path): the value, only if resident and not expired; a hit is an access
CacheGet(p) ==
    /\ opCount < MaxOps
    /\ opCount' = opCount + 1
    /\ IF p \in Resident(cache) /\ Valid(Entry(cache, p), now)
       THEN /\ cache' = Append(Without(cache, {p}),
                               [Entry(cache, p) EXCEPT !.used = opCount + 1])
            /\ lastGet' = [path |-> p, hit |-> TRUE, value |-> Entry(cache, p).value,
                           age |-> now - Entry(cache, p).inserted_at, resident |-> TRUE]
       ELSE /\ cache' = cache
            /\ lastGet' = [path |-> p, hit |-> FALSE, value |-> 0,
                           age |-> 0,
                           resident |-> p \in Resident(cache)]
    /\ UNCHANGED <<now, ticks, lastEvict>>

\* put(path, value): at capacity the least recently used entry makes room
CachePut(p, v) ==
    /\ opCount < MaxOps
    /\ opCount' = opCount + 1
    /\ LET rest == Without(cache, {p})
           e == [path |-> p, value |-> v, inserted_at |-> now, used |-> opCount + 1]
       IN IF Len(rest) >= Capacity /\ Len(rest) > 0
          THEN /\ cache' = Append(Tail(rest), e)
               /\ lastEvict' = [evicted |-> Head(rest).path,
                                lru |-> rest[LeastRecentlyUsed(rest)].path]
          ELSE /\ cache' = Append(rest, e)
               /\ UNCHANGED lastEvict
    /\ UNCHANGED <<now, ticks, lastGet>>

\* invalidate(path): the entry and its parent directory's listing
CacheInvalidate(p) ==
    /\ cache' = Without(cache, {p, Parent(p)})
    /\ UNCHANGED <<now, ticks, opCount, lastGet, lastEvict>>

\* invalidate_prefix(path): every entry at or below path
CacheInvalidatePrefix(p) ==
    /\ cache' = Without(cache, {q \in Resident(cache) : AtOrBelow(p, q)})
    /\ UNCHANGED <<now, ticks, opCount, lastGet, lastEvict>>

Tick(d) ==
    /\ ticks < MaxTicks
    /\ ticks' = ticks + 1
    /\ now' = now + d
    /\ UNCHANGED <<cache, opCount, lastGet, lastEvict>>

----------------------------------------------------------------------------
(* TokenManager: the access credential and its single-flight refresh *)

\* Refreshes per behaviour
MaxRefreshes == 2
\* A refresh is due when fewer than this many seconds remain
SafetyMargin == 60
\* Seconds a new credential is valid for
CredentialLifetime == 7200

Callers == {"c1", "c2", "c3"}
RefreshErrors == {"invalid refresh token", "network"}
TokenTickChoices == {1, CredentialLifetime}

Pending == [tag |-> "Pending", cred |-> 0, err |-> ""]
NotStarted == [tag |-> "None", cred |-> 0, err |-> ""]
CredOk(id) == [tag |-> "Ok", cred |-> id, err |-> ""]
CredErr(e) == [tag |-> "Err", cred |-> 0, err |-> e]
RefreshOutcomes(f) == {CredOk(f)} \cup {CredErr(e) : e \in RefreshErrors}

IdleCaller == [pc |-> "idle", flight |-> 0, got |-> NotStarted, joined |-> FALSE, started |-> FALSE]

TokenInit ==
    /\ tmCred = [id |-> 0, expires_at |-> 0]
    /\ tmInflight = 0
    /\ tmGen = 0
    /\ tmCalls = 0
    /\ tmFlight = [f \in 1..MaxRefreshes |-> NotStarted]
    /\ callers = [c \in Callers |-> IdleCaller]

NeedsRefresh == tmCred.id = 0 \/ tmCred.expires_at - now < SafetyMargin

\* A caller that never joins the refresh in flight
StartsRefreshAlways == TRUE

\* A caller starts the network call only when no refresh is in flight
StartsRefresh == tmInflight = 0

\* Await the refresh in flight, or start one
JoinOrStart(c) ==
    IF StartsRefresh
    THEN /\ tmGen < MaxRefreshes
         /\ tmGen' = tmGen + 1
         /\ tmCalls' = tmCalls + 1
         /\ tmInflight' = tmInflight + 1
         /\ tmFlight' = [tmFlight EXCEPT ![tmGen + 1] = Pending]
         /\ callers' = [callers EXCEPT ![c] =
                [pc |-> "waiting", flight |-> tmGen + 1, got |-> NotStarted,
                 joined |-> tmInflight > 0, started |-> TRUE]]
    ELSE /\ callers' = [callers EXCEPT ![c] =
                [pc |-> "waiting", flight |-> tmGen, got |-> NotStarted,
                 joined |-> TRUE, started |-> FALSE]]
         /\ UNCHANGED <<tmGen, tmCalls, tmInflight, tmFlight>>

\* get_valid_credential(): the credential as it is, or after a refresh
GetValidCredential(c) ==
    /\ callers[c].pc = "idle"
    /\ IF NeedsRefresh
       THEN JoinOrStart(c)
       ELSE /\ callers' = [callers EXCEPT ![c] =
                   [pc |-> "done", flight |-> 0, got |-> CredOk(tmCred.id),
                    joined |-> FALSE, started |-> FALSE]]
            /\ UNCHANGED <<tmGen, tmCalls, tmInflight, tmFlight>>
    /\ UNCHANGED <<tmCred, now, ticks>>

\* force_refresh(): unconditionally
ForceRefresh(c) ==
    /\ callers[c].pc = "idle"
    /\ JoinOrStart(c)
    /\ UNCHANGED <<tmCred, now, ticks>>

\* The network call of refresh f returns
RefreshComplete(f) ==
    /\ tmFlight[f] = Pending
    /\ \E o \in RefreshOutcomes(f) :
        /\ tmFlight' = [tmFlight EXCEPT ![f] = o]
        /\ tmCred' = IF o.tag = "Ok"
                     THEN [id |-> f, expires_at |-> now + CredentialLifetime]
                     ELSE tmCred
    /\ tmInflight' = tmInflight - 1
    /\ UNCHANGED <<tmGen, tmCalls, callers, now, ticks>>

\* A waiting caller observes the outcome of the refresh it awaited
CallerWake(c) ==
    /\ callers[c].pc = "waiting"
    /\ tmFlight[callers[c].flight] # Pending
    /\ callers' = [callers EXCEPT ![c].pc = "done", ![c].got = tmFlight[callers[c].flight]]
    /\ UNCHANGED <<tmCred, tmGen, tmCalls, tmInflight, tmFlight, now, ticks>>

\* The caller's task goes on and may call again
CallerReturn(c) ==
    /\ callers[c].pc = "done"
    /\ callers' = [callers EXCEPT ![c] = IdleCaller]
    /\ UNCHANGED <<tmCred, tmGen, tmCalls, tmInflight, tmFlight, now, ticks>>

TokenTick(d) ==
    /\ ticks < MaxTicks
    /\ ticks' = ticks + 1
    /\ now' = now + d
    /\ UNCHANGED tokenVars

----------------------------------------------------------------------------
(* DriveClient: one remote call with its retry policy *)

\* Retries of a Transient or RateLimited failure before it is surfaced
MaxTransientRetries == 2
\* The first backoff delay, doubled at every retry
BaseBackoffSecs == 1

DriveTask == "c1"
DriveOutcomes ==
    {"Ok", "Unauthorized", "NotFound", "Conflict", "Fatal", "Transient", "RateLimited"}

RECURSIVE Pow2(_)
Pow2(n) == IF n = 0 THEN 1 ELSE 2 * Pow2(n - 1)

IdleCall ==
    [pc |-> "idle", tries |-> 0, unauth |-> 0, refreshes |-> 0, authRetries |-> 0,
     transient |-> 0, delay |-> 0, last |-> "-", refreshed |-> "-", result |-> "-"]

DriveInit == dc = IdleCall

\* A DriveClient operation is called
DcCall ==
    /\ dc.pc = "idle"
    /\ dc' = [IdleCall EXCEPT !.pc = "attempt"]
    /\ UNCHANGED <<tokenVars, now, ticks>>

\* An Unauthorized failure is retried after a refresh as often as it occurs
DcOnUnauthorizedLoop == "refresh"

\* What an Unauthorized failure leads to: one forced refresh, then a failure
DcOnUnauthorized == IF dc.authRetries >= 1 THEN "done" ELSE "refresh"

\* The request is sent and answered
DcAttempt ==
    /\ dc.pc = "attempt"
    /\ \E r \in DriveOutcomes :
        LET d == [dc EXCEPT !.tries = @ + 1, !.last = r] IN
        dc' = CASE r = "Unauthorized" ->
                     [d EXCEPT !.unauth = @ + 1, !.pc = DcOnUnauthorized,
                               !.result = IF DcOnUnauthorized = "done" THEN r ELSE "-"]
                [] r \in {"Transient", "RateLimited"} ->
                     IF dc.transient < MaxTransientRetries
                     THEN [d EXCEPT !.pc = "backoff", !.transient = @ + 1,
                                    !.delay = BaseBackoffSecs * Pow2(dc.transient)]
                     ELSE [d EXCEPT !.pc = "done", !.result = "IoFailure"]
                [] OTHER -> [d EXCEPT !.pc = "done", !.result = r]
    /\ UNCHANGED <<tokenVars, now, ticks>>

\* The backoff delay is over: the request is sent again
DcBackoff ==
    /\ dc.pc = "backoff"
    /\ dc' = [dc EXCEPT !.pc = "attempt"]
    /\ UNCHANGED <<tokenVars, now, ticks>>

\* TokenManager.force_refresh() is called
DcForceRefresh ==
    /\ dc.pc = "refresh"
    /\ ForceRefresh(DriveTask)
    /\ dc' = [dc EXCEPT !.pc = "refreshing", !.refreshes = @ + 1]

\* The refresh is over: one retry with the new credential, or its error
DcRefreshed ==
    /\ dc.pc = "refreshing"
    /\ callers[DriveTask].pc = "waiting"
    /\ tmFlight[callers[DriveTask].flight] # Pending
    /\ dc' = IF tmFlight[callers[DriveTask].flight].tag = "Ok"
             THEN [dc EXCEPT !.pc = "attempt", !.authRetries = @ + 1, !.refreshed = "Ok"]
             ELSE [dc EXCEPT !.pc = "done", !.refreshed = "Err", !.result = "Fatal"]
    /\ callers' = [callers EXCEPT ![DriveTask] = IdleCaller]
    /\ UNCHANGED <<tmCred, tmGen, tmCalls, tmInflight, tmFlight, now, ticks>>

\* The call returns to its caller
DcReturn ==
    /\ dc.pc = "done"
    /\ dc' = IdleCall
    /\ UNCHANGED <<tokenVars, now, ticks>>

----------------------------------------------------------------------------
(* FileSystemAdapter: request tasks reading through the cache and mutating *)

\* Mutations of the path per behaviour
MaxMutations == 2
\* DriveClient calls of the adapter per behaviour
MaxDriveCalls == 3

Tasks == {"t1", "t2"}
ReadOps == {"stat", "list"}
MutOps == {"create", "write", "delete", "rename"}

\* The cache key an operation on the path reads: the path, or its parent's listing
KeyOf(op) == IF op = "list" THEN Parent(PathA) ELSE PathA

IdleTask ==
    [pc |-> "idle", op |-> "-", result |-> "-", val |-> 0, hit |-> FALSE,
     after |-> 0, calls |-> 0]

FsInit ==
    /\ tasks = [t \in Tasks |-> IdleTask]
    /\ remote = 1
    /\ reported = 0
    /\ driveCalls = 0

\* A read starts: the cache is consulted first
FsRead(t, op) ==
    /\ tasks[t].pc = "idle"
    /\ CacheGet(KeyOf(op))
    /\ tasks' = [tasks EXCEPT ![t] =
          IF lastGet'.hit
          THEN [IdleTask EXCEPT !.pc = "done", !.op = op, !.result = "Ok",
                                !.val = lastGet'.value, !.hit = TRUE, !.after = reported]
          ELSE [IdleTask EXCEPT !.pc = "fetch", !.op = op, !.after = reported]]
    /\ UNCHANGED <<remote, reported, driveCalls>>

\* On a miss the remote is asked (a suspension point: no lock is held)
FsFetch(t) ==
    /\ tasks[t].pc = "fetch"
    /\ driveCalls < MaxDriveCalls
    /\ driveCalls' = driveCalls + 1
    /\ \/ tasks' = [tasks EXCEPT ![t].pc = "fill", ![t].val = remote, ![t].calls = @ + 1]
       \/ tasks' = [tasks EXCEPT ![t].pc = "done", ![t].result = "IoFailure", ![t].calls = @ + 1]
    /\ UNCHANGED <<remote, reported, cacheVars>>

\* The answer populates the cache and is returned
FsFill(t) ==
    /\ tasks[t].pc = "fill"
    /\ CachePut(KeyOf(tasks[t].op), tasks[t].val)
    /\ tasks' = [tasks EXCEPT ![t].pc = "done", ![t].result = "Ok"]
    /\ UNCHANGED <<remote, reported, driveCalls>>

\* Read-only mode: a mutation is refused before DriveClient is reached
MutationAllowed == ~fs.read_only

\* A mutating operation starts
FsMutation(t, op) ==
    /\ tasks[t].pc = "idle"
    /\ tasks' = [tasks EXCEPT ![t] =
          IF MutationAllowed
          THEN [IdleTask EXCEPT !.pc = "mutate", !.op = op]
          ELSE [IdleTask EXCEPT !.pc = "done", !.op = op, !.result = "PermissionDenied"]]
    /\ UNCHANGED <<remote, reported, driveCalls, cacheVars>>

\* The DriveClient call of the mutation
FsMutate(t) ==
    /\ tasks[t].pc = "mutate"
    /\ driveCalls < MaxDriveCalls
    /\ driveCalls' = driveCalls + 1
    /\ \/ /\ remote <= MaxMutations
          /\ remote' = remote + 1
          /\ tasks' = [tasks EXCEPT ![t].pc = "invalidate", ![t].val = remote + 1,
                                    ![t].calls = @ + 1]
       \/ /\ tasks' = [tasks EXCEPT ![t].pc = "done", ![t].result = "IoFailure",
                                    ![t].calls = @ + 1]
          /\ UNCHANGED remote
    /\ UNCHANGED <<reported, cacheVars>>

\* The path and its parent's listing are invalidated
FsInvalidate(t) ==
    /\ tasks[t].pc = "invalidate"
    /\ CacheInvalidate(PathA)
    /\ tasks' = [tasks EXCEPT ![t].pc = "report"]
    /\ UNCHANGED <<remote, reported, driveCalls>>

\* The mutation reports success
FsReport(t) ==
    /\ tasks[t].pc = "report"
    /\ tasks' = [tasks EXCEPT ![t].pc = "done", ![t].result = "Ok"]
    /\ reported' = IF tasks[t].val > reported THEN tasks[t].val ELSE reported
    /\ UNCHANGED <<remote, driveCalls, cacheVars>>

\* The request is answered; the task serves the next one
FsDone(t) ==
    /\ tasks[t].pc = "done"
    /\ tasks' = [tasks EXCEPT ![t] = IdleTask]
    /\ UNCHANGED <<remote, reported, driveCalls, cacheVars>>

----------------------------------------------------------------------------
(* login(), src/main.rs 356-400 *)

\* for _i in 0..10
MaxPolls == 10
\* tokio::time::Duration::from_secs(3)
PollIntervalSecs == 3

Tokens == {"t1", "t2"}
QrStates == {"NEW", "SCANED", "EXPIRED", "CONFIRMED"}
\* get_mobile_login_result() is None ("None"), or Some(r) with r.refresh_token()
\* None ("NoToken") or Some(token)
MobileResults == {"None", "NoToken"} \cup Tokens

\* What scan.query(&ck_form).await yields: Err(_) (sent = FALSE) or Ok(query_result)
QueryErr == [sent |-> FALSE, ok |-> FALSE, state |-> "NEW", mobile |-> "None"]
QueryResults == [sent : {TRUE}, ok : BOOLEAN, state : QrStates, mobile : MobileResults]
QueryOutcomes == {QueryErr} \cup QueryResults
NoResp == [sent |-> FALSE, ok |-> FALSE, state |-> "-", mobile |-> "None"]

ok(r) == r.ok
is_new(r) == r.state = "NEW"
is_expired(r) == r.state = "EXPIRED"
is_confirmed(r) == r.state = "CONFIRMED"

Running == [tag |-> "None", val |-> ""]
Continue == [tag |-> "Continue", val |-> ""]
RetOk(t) == [tag |-> "Ok", val |-> t]
RetErr(e) == [tag |-> "Err", val |-> e]

\* A confirmed response without a usable token is skipped like a pending one
LoopBodyMissingTokenContinues(r) ==
    IF ~r.sent THEN RetErr("query failed")
    ELSE IF ok(r) /\ is_confirmed(r) /\ r.mobile \in Tokens THEN RetOk(r.mobile)
    ELSE Continue

\* A response that is not ok ends login instead of consuming one attempt
LoopBodyNotOkFails(r) ==
    IF ~r.sent THEN RetErr("query failed")
    ELSE IF ok(r) THEN
        IF is_confirmed(r) THEN
            IF r.mobile = "None" THEN RetErr("failed to get mobile login result")
            ELSE IF r.mobile = "NoToken" THEN RetErr("failed to get refresh token")
            ELSE RetOk(r.mobile)
        ELSE Continue
    ELSE RetErr("query not ok")

\* A confirmed response that does not return: the loop goes on
LoopBodyNoReturn(r) ==
    IF ~r.sent THEN RetErr("query failed") ELSE Continue

\* The body of the loop after the sleep, lines 372-397: what one query outcome
\* makes login() do
LoopBody(r) ==
    IF ~r.sent THEN RetErr("query failed")
    ELSE IF ok(r) THEN
        IF is_new(r) THEN Continue
        ELSE IF is_expired(r) THEN Continue
        ELSE IF is_confirmed(r) THEN
            IF r.mobile = "None" THEN RetErr("failed to get mobile login result")
            ELSE IF r.mobile = "NoToken" THEN RetErr("failed to get refresh token")
            ELSE RetOk(r.mobile)
        ELSE Continue
    ELSE Continue

LoginInit ==
    /\ pc = "new"
    /\ i = 0
    /\ polls = 0
    /\ sleeps = 0
    /\ elapsed = 0
    /\ result = Running
    /\ lastResp = NoResp
    /\ newPrefix = 0
    /\ everExpired = FALSE
    /\ everConfirmed = FALSE
    /\ qr = "none"

Fail(e) ==
    /\ pc' = "done"
    /\ result' = RetErr(e)

\* let scan = login::QrCodeScanner::new().await?;
LoginScannerNew ==
    /\ pc = "new"
    /\ \/ pc' = "generator" /\ UNCHANGED result
       \/ Fail("scanner")
    /\ UNCHANGED <<i, polls, sleeps, elapsed, lastResp, newPrefix, everExpired, everConfirmed, qr>>

\* let generator_qr_code_result = scan.generator().await?;
LoginGenerator ==
    /\ pc = "generator"
    /\ \/ pc' = "print" /\ qr' = "created" /\ UNCHANGED result
       \/ Fail("generator") /\ UNCHANGED qr
    /\ UNCHANGED <<i, polls, sleeps, elapsed, lastResp, newPrefix, everExpired, everConfirmed>>

\* A print whose failure is ignored: polling begins without a printed code
LoginPrintQrIgnored ==
    /\ pc = "print"
    /\ pc' = "loop"
    /\ qr' \in {"printed", qr}
    /\ UNCHANGED <<i, polls, sleeps, elapsed, result, lastResp, newPrefix, everExpired, everConfirmed>>

\* qr2term::print_qr(&qrcode_content)?;
LoginPrintQr ==
    /\ pc = "print"
    /\ \/ pc' = "loop" /\ qr' = "printed" /\ UNCHANGED result
       \/ Fail("print_qr") /\ UNCHANGED qr
    /\ UNCHANGED <<i, polls, sleeps, elapsed, lastResp, newPrefix, everExpired, everConfirmed>>

\* One more iteration: tokio::time::sleep(3 s).await
LoginSleep ==
    /\ pc = "loop"
    /\ i < MaxPolls
    /\ i' = i + 1
    /\ sleeps' = sleeps + 1
    /\ elapsed' = elapsed + PollIntervalSecs
    /\ pc' = "query"
    /\ UNCHANGED <<polls, result, lastResp, newPrefix, everExpired, everConfirmed, qr>>

\* scan.query(&ck_form).await? and the classification of its result
LoginQuery ==
    /\ pc = "query"
    /\ \E r \in QueryOutcomes :
        /\ polls' = polls + 1
        /\ lastResp' = r
        /\ newPrefix' = IF r.sent /\ ok(r) /\ is_new(r) /\ newPrefix = polls
                        THEN newPrefix + 1 ELSE newPrefix
        /\ everExpired' = (everExpired \/ (r.sent /\ ok(r) /\ is_expired(r)))
        /\ everConfirmed' = (everConfirmed \/ (r.sent /\ ok(r) /\ is_confirmed(r)))
        /\ IF LoopBody(r).tag = "Continue"
           THEN pc' = "loop" /\ UNCHANGED result
           ELSE pc' = "done" /\ result' = LoopBody(r)
    /\ UNCHANGED <<i, sleeps, elapsed, qr>>

\* An exhausted loop that starts over instead of failing
LoginBailRetry ==
    /\ pc = "loop"
    /\ i >= MaxPolls
    /\ i' = 0
    /\ UNCHANGED <<pc, polls, sleeps, elapsed, result, lastResp, newPrefix, everExpired, everConfirmed, qr>>

\* The loop is exhausted: anyhow::bail!("Login failed")
LoginBail ==
    /\ pc = "loop"
    /\ i >= MaxPolls
    /\ Fail("Login failed")
    /\ UNCHANGED <<i, polls, sleeps, elapsed, lastResp, newPrefix, everExpired, everConfirmed, qr>>


----------------------------------------------------------------------------
(* main(), src/main.rs 97-235, and AliyunDriveWebDav::call, 254-285 *)

FileTokens == {"None", "ft1"}

\* A refresh token as a string built from a prefix and a token
Plain(t) == [prefix |-> "", token |-> t]
\* A login token forwarded without the prefix
MobileNoPrefix(t) == Plain(t)
\* format!("mobile:{}", token)
Mobile(t) == [prefix |-> "mobile:", token |-> t]
\* opt.refresh_token.unwrap_or_default()
UnwrapOrDefault(t) == IF t = "None" THEN Plain("") ELSE Plain(t)

NoDrive == [constructed |-> FALSE, refresh_token |-> Plain("")]
\* AliyunDrive::new(drive_config, refresh_token)
NewDrive(t) == [constructed |-> TRUE, refresh_token |-> t]

\* Login decided from the options alone, whatever the working directory holds
ShouldLoginIgnoresFile(o, f) == o.domain_id = "None" /\ o.refresh_token = "None"

\* opt.domain_id.is_none() && opt.refresh_token.is_none()
\*     && refresh_token_from_file.is_none()
ShouldLogin(o, f) ==
    /\ o.domain_id = "None"
    /\ o.refresh_token = "None"
    /\ f = "None"

\* The Authorization header of a request
Usernames == {"alice", "bob"}
Passwords == {"secret", "guess"}
NoHeader == [kind |-> "missing", username |-> "", password |-> ""]
MalformedHeader == [kind |-> "malformed", username |-> "", password |-> ""]
BasicHeaders == [kind : {"basic"}, username : Usernames, password : Passwords]
Headers == {NoHeader, MalformedHeader} \cup BasicHeaders

\* req.headers().typed_get::<Authorization<Basic>>() is Some
typed_get(h) == h.kind = "basic"

Unauthorized401 ==
    [status |-> "401", www_authenticate |-> "Basic realm=\"aliyundrive-webdav\"",
     handled |-> FALSE, principal |-> "None"]
\* dav_server.handle_with(config, req) / dav_server.handle(req): the response
\* is the handler's
Handled(user) ==
    [status |-> "handler", www_authenticate |-> "", handled |-> TRUE, principal |-> user]
NoResponse == [status |-> "None", www_authenticate |-> "", handled |-> FALSE, principal |-> "None"]
NoHttp == [served |-> FALSE, req |-> NoHeader, resp |-> NoResponse]

\* The guard of the match arm with the password comparison left out
CredentialsMatchUserOnly(h, user, pwd) == h.username = user

\* basic.username() == auth_user && basic.password() == auth_pwd
CredentialsMatch(h, user, pwd) == h.username = user /\ h.password = pwd

\* AliyunDriveWebDav::call
Call(auth_user, auth_password, h) ==
    LET should_auth == auth_user # "None" /\ auth_password # "None" IN
    IF should_auth
    THEN IF typed_get(h) /\ CredentialsMatch(h, auth_user, auth_password)
         THEN Handled(h.username)
         ELSE Unauthorized401
    ELSE Handled("None")

\* main() has parsed the options
MainInit ==
    /\ mainPc = "auth_check"
    /\ fileToken = "Unread"
    /\ refreshToken = Plain("")
    /\ drive = NoDrive
    /\ listening = FALSE
    /\ exitResult = "None"
    /\ http = NoHttp

\* return Err(..) from main(), by bail! or `?`
Exit(e) ==
    /\ mainPc' = "exit"
    /\ exitResult' = e

\* auth-user and auth-password must be specified together
MainAuthCheck ==
    /\ mainPc = "auth_check"
    /\ IF (opt.auth_user # "None") # (opt.auth_password # "None")
       THEN Exit("auth-user and auth-password must be specified together.")
       ELSE mainPc' = "read_token" /\ UNCHANGED exitResult
    /\ UNCHANGED <<fileToken, refreshToken, drive, listening, http, loginVars, optVars>>

\* workdir, and read_refresh_token(dir).await.ok() when there is one
MainReadToken ==
    /\ mainPc = "read_token"
    /\ fileToken' \in FileTokens
    /\ mainPc' = "decide"
    /\ UNCHANGED <<refreshToken, drive, listening, exitResult, http, loginVars, optVars>>

\* let refresh_token = if .. { format!("mobile:{}", login().await?) } else { .. }:
\* login() is called, or the option's token is taken
MainDecide ==
    /\ mainPc = "decide"
    /\ IF ShouldLogin(opt, fileToken)
       THEN /\ mainPc' = "login"
            /\ pc' = "new"
            /\ UNCHANGED refreshToken
       ELSE /\ mainPc' = "drive_new"
            /\ refreshToken' = UnwrapOrDefault(opt.refresh_token)
            /\ UNCHANGED pc
    /\ UNCHANGED <<fileToken, drive, listening, exitResult, http, optVars,
                   i, polls, sleeps, elapsed, result, lastResp, newPrefix,
                   everExpired, everConfirmed, qr>>

\* login() has returned: format!("mobile:{}", token), or `?` leaves main()
MainLoginReturned ==
    /\ mainPc = "login"
    /\ pc = "done"
    /\ IF result.tag = "Ok"
       THEN /\ refreshToken' = Mobile(result.val)
            /\ mainPc' = "drive_new"
            /\ UNCHANGED exitResult
       ELSE /\ Exit(result.val)
            /\ UNCHANGED refreshToken
    /\ UNCHANGED <<fileToken, drive, listening, http, loginVars, optVars>>

\* let drive = AliyunDrive::new(drive_config, refresh_token).await?;
MainDriveNew ==
    /\ mainPc = "drive_new"
    /\ \/ /\ drive' = NewDrive(refreshToken)
          /\ mainPc' = "fs_new"
          /\ UNCHANGED exitResult
       \/ /\ Exit("AliyunDrive::new")
          /\ UNCHANGED drive
    /\ UNCHANGED <<fileToken, refreshToken, listening, http, loginVars, optVars>>

\* let fs = AliyunDriveFileSystem::new(..).await?;
MainFsNew ==
    /\ mainPc = "fs_new"
    /\ \/ /\ fs' = NewFileSystem(opt)
          /\ mainPc' = "bind"
          /\ UNCHANGED exitResult
       \/ /\ Exit("AliyunDriveFileSystem::new")
          /\ UNCHANGED fs
    /\ UNCHANGED <<fileToken, refreshToken, drive, listening, http, loginVars, opt>>

\* The handler is built, the address resolved and the server bound
MainServe ==
    /\ mainPc = "bind"
    /\ \/ /\ listening' = TRUE
          /\ mainPc' = "serving"
          /\ UNCHANGED exitResult
       \/ /\ Exit("AddrNotAvailable")
          /\ UNCHANGED listening
    /\ UNCHANGED <<fileToken, refreshToken, drive, http, loginVars, optVars>>

\* One request is answered by AliyunDriveWebDav::call
ServiceCall(h) ==
    /\ mainPc = "serving"
    /\ http' = [served |-> TRUE, req |-> h,
                resp |-> Call(opt.auth_user, opt.auth_password, h)]
    /\ UNCHANGED <<mainPc, fileToken, refreshToken, drive, listening, exitResult,
                   loginVars, optVars>>

\* server.await is over: Ok(())
MainServerEnd ==
    /\ mainPc = "serving"
    /\ listening' = FALSE
    /\ Exit("Ok")
    /\ UNCHANGED <<fileToken, refreshToken, drive, http, loginVars, optVars>>


----------------------------------------------------------------------------
(* Specifications: login() during the bootstrap, and each component of the
   running server *)

LoginNext ==
    \/ LoginScannerNew /\ UNCHANGED <<optVars, mainVars, cacheVars, tokenVars, dc, fsVars>>
    \/ LoginGenerator /\ UNCHANGED <<optVars, mainVars, cacheVars, tokenVars, dc, fsVars>>
    \/ LoginPrintQr /\ UNCHANGED <<optVars, mainVars, cacheVars, tokenVars, dc, fsVars>>
    \/ LoginSleep /\ UNCHANGED <<optVars, mainVars, cacheVars, tokenVars, dc, fsVars>>
    \/ LoginQuery /\ UNCHANGED <<optVars, mainVars, cacheVars, tokenVars, dc, fsVars>>
    \/ LoginBail /\ UNCHANGED <<optVars, mainVars, cacheVars, tokenVars, dc, fsVars>>

\* main() is awaiting login(): no token from the options or the working
\* directory
MainAtLogin ==
    /\ mainPc = "login"
    /\ fileToken = "None"
    /\ refreshToken = Plain("")
    /\ drive = NoDrive
    /\ listening = FALSE
    /\ exitResult = "None"
    /\ http = NoHttp

\* main() is awaiting the server, login() did not run: the working directory
\* holds a token
MainServing ==
    /\ mainPc = "serving"
    /\ fileToken = "ft1"
    /\ refreshToken = UnwrapOrDefault(opt.refresh_token)
    /\ drive = NewDrive(refreshToken)
    /\ listening = TRUE
    /\ exitResult = "None"
    /\ http = NoHttp

\* No refresh token and no service credentials among the options
Bare(o) == o.refresh_token = "None" /\ o.auth_user = "None" /\ o.auth_password = "None"

\* login() did not run: the refresh token came from the options
LoginIdle ==
    /\ pc = "idle"
    /\ i = 0
    /\ polls = 0
    /\ sleeps = 0
    /\ elapsed = 0
    /\ result = Running
    /\ lastResp = NoResp
    /\ newPrefix = 0
    /\ everExpired = FALSE
    /\ everConfirmed = FALSE
    /\ qr = "none"

\* login() runs before the drive and the file system are constructed
LoginSpecInit ==
    /\ LoginInit
    /\ opt \in {o \in Opts : /\ o.domain_id = "None"
                              /\ o.cache_size = DefaultCacheSize
                              /\ o.cache_ttl = DefaultCacheTtl
                              /\ Bare(o)}
    /\ fs = NoFs
    /\ MainAtLogin
    /\ CacheInit
    /\ TokenInit
    /\ DriveInit
    /\ FsInit

LoginSpec == LoginSpecInit /\ [][LoginNext]_vars
\* login() is one async function awaited by main: it runs until it returns
LoginFairSpec == LoginSpec /\ WF_vars(LoginNext)

CacheNext ==
    \/ (\E p \in Paths : CacheGet(p)) /\ UNCHANGED <<loginVars, optVars, mainVars, tokenVars, dc, fsVars>>
    \/ (\E p \in Paths, v \in Values : CachePut(p, v)) /\ UNCHANGED <<loginVars, optVars, mainVars, tokenVars, dc, fsVars>>
    \/ (\E p \in Paths : CacheInvalidate(p)) /\ UNCHANGED <<loginVars, optVars, mainVars, tokenVars, dc, fsVars>>
    \/ (\E p \in Paths : CacheInvalidatePrefix(p)) /\ UNCHANGED <<loginVars, optVars, mainVars, tokenVars, dc, fsVars>>
    \/ (\E d \in TickChoices : Tick(d)) /\ UNCHANGED <<loginVars, optVars, mainVars, tokenVars, dc, fsVars>>

\* The server is up: the file system was constructed from the options
CacheSpecInit ==
    /\ LoginIdle
    /\ opt \in {o \in Opts : /\ o.cache_size < DefaultCacheSize
                              /\ o.domain_id = "None" /\ ~o.no_trash /\ ~o.read_only
                              /\ Bare(o)}
    /\ fs = NewFileSystem(opt)
    /\ MainServing
    /\ CacheInit
    /\ TokenInit
    /\ DriveInit
    /\ FsInit

CacheSpec == CacheSpecInit /\ [][CacheNext]_vars

TokenNext ==
    \/ (\E c \in Callers : GetValidCredential(c)) /\ UNCHANGED <<loginVars, optVars, mainVars, cache, opCount, lastGet, lastEvict, dc, fsVars>>
    \/ (\E c \in Callers : ForceRefresh(c)) /\ UNCHANGED <<loginVars, optVars, mainVars, cache, opCount, lastGet, lastEvict, dc, fsVars>>
    \/ (\E f \in 1..MaxRefreshes : RefreshComplete(f)) /\ UNCHANGED <<loginVars, optVars, mainVars, cache, opCount, lastGet, lastEvict, dc, fsVars>>
    \/ (\E c \in Callers : CallerWake(c)) /\ UNCHANGED <<loginVars, optVars, mainVars, cache, opCount, lastGet, lastEvict, dc, fsVars>>
    \/ (\E c \in Callers : CallerReturn(c)) /\ UNCHANGED <<loginVars, optVars, mainVars, cache, opCount, lastGet, lastEvict, dc, fsVars>>
    \/ (\E d \in TokenTickChoices : TokenTick(d)) /\ UNCHANGED <<loginVars, optVars, mainVars, cache, opCount, lastGet, lastEvict, dc, fsVars>>

\* The server is up with the default options
ServingInit ==
    /\ LoginIdle
    /\ opt = DefaultOpt
    /\ fs = NewFileSystem(opt)
    /\ MainServing
    /\ CacheInit
    /\ TokenInit
    /\ DriveInit
    /\ FsInit

TokenSpec == ServingInit /\ [][TokenNext]_vars

DriveNext ==
    \/ DcCall /\ UNCHANGED <<loginVars, optVars, mainVars, cache, opCount, lastGet, lastEvict, fsVars>>
    \/ DcAttempt /\ UNCHANGED <<loginVars, optVars, mainVars, cache, opCount, lastGet, lastEvict, fsVars>>
    \/ DcBackoff /\ UNCHANGED <<loginVars, optVars, mainVars, cache, opCount, lastGet, lastEvict, fsVars>>
    \/ DcForceRefresh /\ UNCHANGED <<loginVars, optVars, mainVars, cache, opCount, lastGet, lastEvict, fsVars>>
    \/ (\E f \in 1..MaxRefreshes : RefreshComplete(f))
          /\ UNCHANGED <<loginVars, optVars, mainVars, cache, opCount, lastGet, lastEvict, dc, fsVars>>
    \/ DcRefreshed /\ UNCHANGED <<loginVars, optVars, mainVars, cache, opCount, lastGet, lastEvict, fsVars>>
    \/ DcReturn /\ UNCHANGED <<loginVars, optVars, mainVars, cache, opCount, lastGet, lastEvict, fsVars>>

DriveSpec == ServingInit /\ [][DriveNext]_vars

FsNext ==
    \/ (\E t \in Tasks, op \in ReadOps : FsRead(t, op)) /\ UNCHANGED <<loginVars, optVars, mainVars, tokenVars, dc>>
    \/ (\E t \in Tasks : FsFetch(t)) /\ UNCHANGED <<loginVars, optVars, mainVars, tokenVars, dc>>
    \/ (\E t \in Tasks : FsFill(t)) /\ UNCHANGED <<loginVars, optVars, mainVars, tokenVars, dc>>
    \/ (\E t \in Tasks, op \in MutOps : FsMutation(t, op)) /\ UNCHANGED <<loginVars, optVars, mainVars, tokenVars, dc>>
    \/ (\E t \in Tasks : FsMutate(t)) /\ UNCHANGED <<loginVars, optVars, mainVars, tokenVars, dc>>
    \/ (\E t \in Tasks : FsInvalidate(t)) /\ UNCHANGED <<loginVars, optVars, mainVars, tokenVars, dc>>
    \/ (\E t \in Tasks : FsReport(t)) /\ UNCHANGED <<loginVars, optVars, mainVars, tokenVars, dc>>
    \/ (\E t \in Tasks : FsDone(t)) /\ UNCHANGED <<loginVars, optVars, mainVars, tokenVars, dc>>

\* The server is up, read-only or not, with the default cache options
FsSpecInit ==
    /\ LoginIdle
    /\ opt \in {o \in Opts : /\ o.cache_size = DefaultCacheSize
                              /\ o.cache_ttl = DefaultCacheTtl
                              /\ Bare(o)}
    /\ fs = NewFileSystem(opt)
    /\ MainServing
    /\ CacheInit
    /\ TokenInit
    /\ DriveInit
    /\ FsInit

FsSpec == FsSpecInit /\ [][FsNext]_vars

\* main() from the parsed options to the end of the server, login() included
MainNext ==
    \/ MainAuthCheck /\ UNCHANGED <<cacheVars, tokenVars, dc, fsVars>>
    \/ MainReadToken /\ UNCHANGED <<cacheVars, tokenVars, dc, fsVars>>
    \/ MainDecide /\ UNCHANGED <<cacheVars, tokenVars, dc, fsVars>>
    \/ LoginScannerNew /\ UNCHANGED <<optVars, mainVars, cacheVars, tokenVars, dc, fsVars>>
    \/ LoginGenerator /\ UNCHANGED <<optVars, mainVars, cacheVars, tokenVars, dc, fsVars>>
    \/ LoginPrintQr /\ UNCHANGED <<optVars, mainVars, cacheVars, tokenVars, dc, fsVars>>
    \/ LoginSleep /\ UNCHANGED <<optVars, mainVars, cacheVars, tokenVars, dc, fsVars>>
    \/ LoginQuery /\ UNCHANGED <<optVars, mainVars, cacheVars, tokenVars, dc, fsVars>>
    \/ LoginBail /\ UNCHANGED <<optVars, mainVars, cacheVars, tokenVars, dc, fsVars>>
    \/ MainLoginReturned /\ UNCHANGED <<cacheVars, tokenVars, dc, fsVars>>
    \/ MainDriveNew /\ UNCHANGED <<cacheVars, tokenVars, dc, fsVars>>
    \/ MainFsNew /\ UNCHANGED <<cacheVars, tokenVars, dc, fsVars>>
    \/ MainServe /\ UNCHANGED <<cacheVars, tokenVars, dc, fsVars>>
    \/ (\E h \in Headers : ServiceCall(h)) /\ UNCHANGED <<cacheVars, tokenVars, dc, fsVars>>
    \/ MainServerEnd /\ UNCHANGED <<cacheVars, tokenVars, dc, fsVars>>

\* Opt::parse() has returned, with the default cache options
MainSpecInit ==
    /\ LoginIdle
    /\ opt \in {o \in Opts : o.cache_size = DefaultCacheSize /\ o.cache_ttl = DefaultCacheTtl}
    /\ fs = NoFs
    /\ MainInit
    /\ CacheInit
    /\ TokenInit
    /\ DriveInit
    /\ FsInit

MainSpec == MainSpecInit /\ [][MainNext]_vars

----------------------------------------------------------------------------
(* Properties of login() *)

Confirmed(r) == r.sent /\ ok(r) /\ is_confirmed(r)

\* C1: if polls 1..k-1 each report "new" and poll k reports "confirmed" with
\* refresh token T (k in 1..10), login returns exactly T and issues no poll after
\* poll k; if all 10 polls report "new", login fails with "Login failed".
C1_QrLoginResult ==
    /\ (polls >= 1 /\ newPrefix = polls - 1 /\ Confirmed(lastResp) /\ lastResp.mobile \in Tokens)
          => /\ polls \in 1..MaxPolls
             /\ pc = "done"
             /\ result = RetOk(lastResp.mobile)
             /\ ~ENABLED LoginNext
    /\ newPrefix = MaxPolls
          => /\ polls = MaxPolls
             /\ ~ENABLED LoginSleep
             /\ ~ENABLED LoginQuery
             /\ \/ pc = "loop" /\ ENABLED LoginBail
                \/ pc = "done" /\ result = RetErr("Login failed")

\* Polls 1-9 reported "new", poll 10 "confirmed" with a token: login returned it
C1_Witness ==
    /\ pc = "done"
    /\ polls = MaxPolls
    /\ newPrefix = MaxPolls - 1
    /\ Confirmed(lastResp)
    /\ result = RetOk("t2")

C2_Safety ==
    /\ polls <= MaxPolls
    /\ sleeps = (IF pc = "query" THEN polls + 1 ELSE polls)
    /\ elapsed = PollIntervalSecs * sleeps
    /\ pc = "done" => result.tag \in {"Ok", "Err"} /\ ~ENABLED LoginNext
    /\ (pc = "done" /\ ~everConfirmed) => result.tag = "Err"
    /\ (pc = "done" /\ ~everConfirmed /\ polls >= 1 /\ lastResp.sent)
          => polls = MaxPolls /\ result = RetErr("Login failed")

\* C2: for any sequence of poll responses login issues at most 10 polls, each
\* preceded by exactly one 3-second sleep, and then terminates; when no poll was
\* confirmed it ends by returning an error value ("Login failed" once every poll
\* was answered), never by looping further.
C2_QrLoginBounded == []C2_Safety /\ <>(pc = "done")

\* Ten answered polls, not all "new", none confirmed: login returned "Login failed"
C2_Witness ==
    /\ pc = "done"
    /\ polls = MaxPolls
    /\ sleeps = MaxPolls
    /\ newPrefix < MaxPolls
    /\ ~everConfirmed
    /\ result = RetErr("Login failed")

\* C3: a poll whose request fails does not end login before the 10 polls are used up
C3_TransientErrorKeepsPolling ==
    (polls >= 1 /\ ~lastResp.sent) => (pc # "done" \/ polls = MaxPolls)

\* C4: once a poll response was classified expired, login never returns a token
C4_ExpiredIsTerminal ==
    everExpired => result.tag # "Ok"

----------------------------------------------------------------------------
(* Properties of EntryCache as the file system configures it *)

\* C5: whenever get(P) returns a value, now - inserted_at(P) < ttl, where ttl is
\* the cache_ttl option given at construction (600 by default): an expired entry,
\* resident or not, is never returned.
C5_NeverReturnsExpired ==
    lastGet.hit => (lastGet.resident /\ lastGet.age < opt.cache_ttl)

\* With the default ttl of 600 s, a get hit an entry inserted 599 s earlier
C5_Witness ==
    /\ opt.cache_ttl = DefaultCacheTtl
    /\ lastGet.hit
    /\ lastGet.age = DefaultCacheTtl - 1
    /\ lastGet.value = 2

\* C6: the number of resident entries never exceeds the cache_size option, and an
\* entry evicted by a put at capacity is the least recently accessed one at that
\* moment.
C6_CapacityBoundLru ==
    /\ Len(cache) <= opt.cache_size
    /\ Cardinality(Resident(cache)) = Len(cache)
    /\ lastEvict # NoEvict => lastEvict.evicted = lastEvict.lru

\* Capacity 2: put /, put /a, get /, put /b evicted /a, the least recently used,
\* and left / and /b
C6_Witness ==
    /\ opt.cache_size = 2
    /\ lastEvict.evicted = PathA
    /\ Len(cache) = 2
    /\ cache[1].path = Root /\ cache[1].used = 3
    /\ cache[2].path = PathB /\ cache[2].used = 4

----------------------------------------------------------------------------
(* Properties of TokenManager *)

----------------------------------------------------------------------------
(* Properties of the FileSystemAdapter and of DriveClient *)

\* C8: a read of the path or of its parent's listing that starts after a mutation
\* of the path has reported success never returns content older than that
\* mutation.
C8_NoStaleReadAfterMutation ==
    \A t \in Tasks :
        (tasks[t].pc = "done" /\ tasks[t].op \in ReadOps /\ tasks[t].result = "Ok")
            => tasks[t].val >= tasks[t].after

C9_RetryBounds ==
    /\ dc.refreshes <= 1
    /\ dc.authRetries <= 1
    /\ dc.unauth <= 2
    /\ (dc.pc = "done" /\ dc.authRetries = 1 /\ dc.last = "Ok") => dc.result = "Ok"
    /\ (dc.pc = "done" /\ dc.unauth = 2)
          => dc.result = "Unauthorized" /\ dc.last = "Unauthorized"

\* C9 as stated: a call that failed with Unauthorized is followed by exactly one
\* forced refresh and exactly one retry.
C9_UnauthorizedRetriedOnce ==
    /\ C9_RetryBounds
    /\ (dc.pc = "done" /\ dc.unauth >= 1) => (dc.refreshes = 1 /\ dc.authRetries = 1)

\* C9 amended: a call that failed with Unauthorized is followed by exactly one
\* forced refresh and, if that refresh succeeds, by exactly one retry, whose
\* success the caller observes and whose Unauthorized is returned without a
\* further refresh or retry; if the refresh fails, its failure is returned
\* without a retry.
C9_UnauthorizedRetriedOnceIfRefreshed ==
    /\ C9_RetryBounds
    /\ (dc.pc = "done" /\ dc.unauth >= 1)
          => /\ dc.refreshes = 1
             /\ dc.refreshed \in {"Ok", "Err"}
             /\ dc.refreshed = "Ok" => dc.authRetries = 1
             /\ dc.refreshed = "Err"
                   => dc.authRetries = 0 /\ dc.result = "Fatal" /\ dc.last = "Unauthorized"

\* Unauthorized on the first request, the refresh succeeded, the retry succeeded:
\* success after two requests, one refresh and one retry
C9_Witness ==
    /\ dc.pc = "done"
    /\ dc.unauth = 1
    /\ dc.refreshes = 1
    /\ dc.authRetries = 1
    /\ dc.tries = 2
    /\ dc.result = "Ok"
    /\ tmCalls = 1

\* A step of a task that is in a mutating operation
MutatingStep ==
    \E t \in Tasks : tasks'[t] # tasks[t] /\ tasks'[t].op \in MutOps

C10_ReadOnlyState ==
    /\ remote = 1
    /\ \A t \in Tasks :
        tasks[t].op \in MutOps
            => /\ tasks[t].pc = "done"
               /\ tasks[t].result = "PermissionDenied"
               /\ tasks[t].calls = 0

\* C10: with the read-only option set, every create, write, delete and rename
\* fails with PermissionDenied, issues no DriveClient call and leaves the remote
\* state and the cache unchanged.
C10_ReadOnlyMode ==
    /\ [](opt.read_only => C10_ReadOnlyState)
    /\ [][(opt.read_only /\ MutatingStep)
            => (cache' = cache /\ remote' = remote /\ driveCalls' = driveCalls)]_vars

\* Read-only: a delete was refused while the cache held an entry a read had put
C10_Witness ==
    /\ opt.read_only
    /\ \E t \in Tasks :
        /\ tasks[t].op = "delete"
        /\ tasks[t].pc = "done"
        /\ tasks[t].result = "PermissionDenied"
    /\ Len(cache) > 0
    /\ driveCalls = 1


----------------------------------------------------------------------------
(* login(): the QR code and the poll loop *)

QrFailures == {"scanner", "generator", "print_qr"}

C13_State ==
    /\ (polls >= 1 \/ pc \in {"loop", "query"}) => qr = "printed"
    /\ (pc = "done" /\ result.tag = "Err" /\ result.val \in QrFailures)
         => polls = 0 /\ sleeps = 0 /\ qr # "printed"

\* C13: in every run of login the first status poll happens only after the
\* QR code has been created and printed, and when creating or printing it
\* fails login is over without any poll, then or later.
C13_QrBeforePolling ==
    /\ []C13_State
    /\ [][polls' # polls => qr = "printed" /\ qr' = "printed"]_vars
    /\ [][(pc = "done" /\ qr # "printed") => (pc' = "done" /\ polls' = polls)]_vars

C13_Witness == polls = 1 /\ pc = "loop" /\ qr = "printed"

MissingToken(r) == Confirmed(r) /\ r.mobile \notin Tokens

C15_State ==
    MissingToken(lastResp) =>
        /\ pc = "done"
        /\ result = RetErr(IF lastResp.mobile = "None"
                           THEN "failed to get mobile login result"
                           ELSE "failed to get refresh token")
        /\ i = polls

\* C15: a poll that reports "confirmed" while the mobile login result or its
\* refresh token is missing ends login at that poll with an error: no
\* further poll is issued, attempts left or not, and no token is returned.
C15_ConfirmedWithoutTokenFails ==
    /\ []C15_State
    /\ [][MissingToken(lastResp) => (polls' = polls /\ result' = result /\ pc' = "done")]_vars

C15_Witness ==
    /\ MissingToken(lastResp)
    /\ lastResp.mobile = "NoToken"
    /\ polls = 2
    /\ pc = "done"

\* A response after which login neither returns a token nor fails at once
NonTerminal(r) ==
    /\ r.sent
    /\ ~ok(r) \/ ~(is_new(r) \/ is_expired(r) \/ is_confirmed(r))

\* C16: a response that is not ok, or ok but none of new/expired/confirmed,
\* leaves login polling and uses up one of the 10 attempts, so every poll
\* is one attempt and a success at poll k has made exactly k polls.
C16_EveryPollConsumesOneAttempt ==
    /\ i = polls + (IF pc = "query" THEN 1 ELSE 0)
    /\ i <= MaxPolls
    /\ result.tag = "Ok" => polls = i /\ polls >= 1
    /\ (polls >= 1 /\ NonTerminal(lastResp)) =>
          \/ pc \in {"loop", "query"}
          \/ pc = "done" /\ result = RetErr("Login failed") /\ polls = MaxPolls

C16_Witness ==
    /\ result.tag = "Ok"
    /\ polls = 3
    /\ newPrefix = 0
    /\ ~everExpired

----------------------------------------------------------------------------
(* Properties of main() and of the service *)

\* C11: the file system is constructed with permanent delete (no_trash =
\* TRUE) in every configuration with a PDS domain id, and with the no-trash
\* flag as its delete mode when no domain id is set.
C11_PermanentDeleteForPds ==
    fs # NoFs =>
        /\ opt.domain_id # "None" => fs.no_trash = TRUE
        /\ opt.domain_id = "None" => fs.no_trash = opt.no_trash

C11_Witness ==
    /\ fs # NoFs
    /\ opt.domain_id # "None"
    /\ ~opt.no_trash
    /\ fs.no_trash

LoginStarted == pc # "idle"

NoTokenAvailable ==
    /\ opt.refresh_token = "None"
    /\ fileToken = "None"
    /\ opt.domain_id = "None"

C12_State ==
    /\ LoginStarted => NoTokenAvailable
    /\ mainPc \in {"login", "drive_new", "fs_new", "bind", "serving"}
          => (LoginStarted <=> NoTokenAvailable)
    /\ (listening \/ mainPc = "serving") => pc \in {"idle", "done"}

\* C12: the QR login runs if and only if no refresh token was given by
\* option or environment, none was read from the working directory and no
\* PDS domain id is set; it is started by the bootstrap only, at most once,
\* and no step of it happens once the server is serving.
C12_LoginOnlyAtBootstrap ==
    /\ []C12_State
    /\ [][pc' = "new" => (pc = "new" \/ (pc = "idle" /\ mainPc = "decide"))]_vars
    /\ [][LoginStarted => pc' # "idle"]_vars
    /\ [][(listening \/ mainPc \in {"serving", "exit"}) => UNCHANGED loginVars]_vars

C12_Witness ==
    /\ mainPc = "serving"
    /\ http.served
    /\ pc = "done"
    /\ result.tag = "Ok"

ShouldAuth == opt.auth_user # "None" /\ opt.auth_password # "None"

\* C14: with both an auth user and an auth password configured, a request
\* reaches the DAV handler only with Basic credentials equal to both, and
\* any other request gets a 401 with a WWW-Authenticate header and no
\* handler call; with no credentials configured every request reaches it.
C14_AuthenticationGate ==
    /\ mainPc = "serving" => (ShouldAuth \/ (opt.auth_user = "None" /\ opt.auth_password = "None"))
    /\ http.served =>
        /\ ShouldAuth =>
              /\ http.resp.handled <=>
                    /\ http.req.kind = "basic"
                    /\ http.req.username = opt.auth_user
                    /\ http.req.password = opt.auth_password
              /\ ~http.resp.handled =>
                    /\ http.resp.status = "401"
                    /\ http.resp.www_authenticate # ""
        /\ ~ShouldAuth => http.resp.handled

C14_Witness ==
    /\ http.served
    /\ ShouldAuth
    /\ http.req.kind = "basic"
    /\ http.req.username = opt.auth_user
    /\ http.req.password # opt.auth_password
    /\ http.resp.status = "401"

LoginFailed == pc = "done" /\ result.tag = "Err"

\* C17: the drive client is constructed with "mobile:" followed by the token
\* login returned when login ran, and otherwise with the option's token, or
\* the empty string when there is none, never with the token read from the
\* working directory; after a failed login no drive client is constructed
\* and the server never listens.
C17_RefreshTokenHandedToDrive ==
    /\ drive.constructed =>
          IF LoginStarted
          THEN /\ result.tag = "Ok"
               /\ drive.refresh_token = [prefix |-> "mobile:", token |-> result.val]
          ELSE /\ drive.refresh_token.prefix = ""
               /\ drive.refresh_token.token =
                     (IF opt.refresh_token = "None" THEN "" ELSE opt.refresh_token)
    /\ LoginFailed =>
          /\ ~drive.constructed
          /\ ~listening
          /\ mainPc \in {"login", "exit"}
          /\ fs = NoFs

C17_Witness ==
    /\ drive.constructed
    /\ listening
    /\ result = RetOk("t1")
    /\ drive.refresh_token.prefix = "mobile:"
====
